---- MODULE Spec2Model ----
(***************************************************************************)
(* Model of bot.py, the Warframe Arbitrations Discord bot: the resilient   *)
(* fetchers, the schedule feed parser, the node resolver, the tier         *)
(* classifier, the arbitration assembler and the future-events scanner.    *)
(*                                                                         *)
(* Python str values are TLA+ strings (Len, SubSeq, Head, Tail and \o work *)
(* on them).  A Python dict is a function whose DOMAIN is its key set, an  *)
(* Optional value is None or Some(v).                                      *)
(***************************************************************************)
EXTENDS Integers, Sequences, FiniteSets, TLC

VARIABLES
    tier_args,      \* the arguments (mission_type, node_name) given to calculate_tier
    tier_outs,      \* the values returned by the successive calls on tier_args
    now,            \* time.time(), in whole seconds
    pc,             \* pc[p]: where coroutine p stands (its next step)
    fetch,          \* fetch[p]: the activation of fetch_text / fetch_json awaited by p
    loc,            \* loc[p]: the local variables of coroutine p
    upstream,       \* which contents the two upstream sources can serve
    script,         \* the outcomes of the successive requests, << >> when unconstrained
    wire,           \* wire[p]: the attempts p's fetch has made, each with its response
    config,         \* ArbitrationsCog.config, the dict of config.json
    chat,           \* the messages sent to Discord, in the order they were sent
    hourly_loop     \* the tasks.Loop object of ArbitrationsCog.hourly_loop

tierVars == <<tier_args, tier_outs>>

procVars == <<now, pc, fetch, loc, upstream, script, wire>>

cogVars == <<config, chat, hourly_loop>>

vars == <<tier_args, tier_outs, now, pc, fetch, loc, upstream, script, wire, config, chat, hourly_loop>>

(***************************************************************************)
(* Python values                                                           *)
(***************************************************************************)
None == [isNone |-> TRUE]

Some(v) == [isNone |-> FALSE, val |-> v]

\* a Python assignment  name = e  followed by the statements F(name): e is
\* evaluated once, when the assignment is executed
Let(e, F(_)) == CHOOSE r \in {F(v) : v \in {e}} : TRUE

\* the sentinels of the result record
Inconnu == "Inconnu"

Inconnue == "Inconnue"

(***************************************************************************)
(* Python str methods                                                      *)
(***************************************************************************)
Char(s, i) == SubSeq(s, i, i)

LowerChars == "abcdefghijklmnopqrstuvwxyzö"

UpperChars == "ABCDEFGHIJKLMNOPQRSTUVWXYZÖ"

UpperChar(c) ==
    IF \E i \in 1..Len(LowerChars) : Char(LowerChars, i) = c
    THEN Char(UpperChars, CHOOSE i \in 1..Len(LowerChars) : Char(LowerChars, i) = c)
    ELSE c

RECURSIVE upper(_)
\* str.upper()
upper(s) == IF s = "" THEN "" ELSE UpperChar(Head(s)) \o upper(Tail(s))

\* the Python expression  sub in s  on two strings
In(sub, s) ==
    \E i \in 0..(Len(s) - Len(sub)) : SubSeq(s, i + 1, i + Len(sub)) = sub

\* the least i with s[i:i+len(sub)] = sub, as a 1-based index; 0 when absent
Find(sub, s) ==
    IF In(sub, s)
    THEN 1 + CHOOSE i \in 0..(Len(s) - Len(sub)) :
                /\ SubSeq(s, i + 1, i + Len(sub)) = sub
                /\ \A j \in 0..(i - 1) : SubSeq(s, j + 1, j + Len(sub)) # sub
    ELSE 0

IsSpace(c) == c \in {" ", "\t", "\n", "\r"}

RECURSIVE lstrip(_)
lstrip(s) == IF s # "" /\ IsSpace(Head(s)) THEN lstrip(Tail(s)) ELSE s

RECURSIVE rstrip(_)
rstrip(s) ==
    IF s # "" /\ IsSpace(Char(s, Len(s))) THEN rstrip(SubSeq(s, 1, Len(s) - 1)) ELSE s

\* str.strip()
strip(s) == rstrip(lstrip(s))

RECURSIVE splitlines(_)
\* str.splitlines(): no empty last line after a final line break
splitlines(s) ==
    IF s = "" THEN << >>
    ELSE Let(Find("\n", s), LAMBDA i :
             IF i = 0 THEN <<s>>
             ELSE <<SubSeq(s, 1, i - 1)>> \o splitlines(SubSeq(s, i + 1, Len(s))))

\* str.split(sep, 1): one part without sep, else the text before and after
\* the first sep
split1(s, sep) ==
    Let(Find(sep, s), LAMBDA i :
        IF i = 0 THEN <<s>>
        ELSE <<SubSeq(s, 1, i - 1), SubSeq(s, i + Len(sep), Len(s))>>)

Digits == "0123456789"

IsDigit(c) == \E i \in 1..10 : Char(Digits, i) = c

DigitVal(c) == (CHOOSE i \in 1..10 : Char(Digits, i) = c) - 1

RECURSIVE DigitsVal(_)
DigitsVal(s) ==
    IF s = "" THEN 0
    ELSE 10 * DigitsVal(SubSeq(s, 1, Len(s) - 1)) + DigitVal(Char(s, Len(s)))

\* int(s) on a str: surrounding whitespace, an optional sign, decimal digits;
\* None stands for the ValueError
int(s) ==
    Let(strip(s), LAMBDA t :
    Let(t # "" /\ Head(t) \in {"+", "-"}, LAMBDA signed :
    Let(IF signed THEN Tail(t) ELSE t, LAMBDA body :
        IF body # "" /\ \A i \in 1..Len(body) : IsDigit(Char(body, i))
        THEN Some(IF signed /\ Head(t) = "-" THEN 0 - DigitsVal(body) ELSE DigitsVal(body))
        ELSE None)))

RECURSIVE str(_)
\* str(n) of a natural number, as the feed writes its timestamps
str(n) ==
    IF n < 10 THEN Char(Digits, n + 1)
    ELSE str(n \div 10) \o Char(Digits, (n % 10) + 1)

(***************************************************************************)
(* calculate_tier                                                          *)
(***************************************************************************)
S_NODES == <<"AKKAD", "HYDRON", "STÖFLER", "CERBERUS", "BEREHYNIA", "UR",
             "LOST PASSAGE", "ADRASTEA", "CARACOL">>

A_NODES == <<"ZABALA", "HIERACON", "GABII", "APOLLO", "HOREND", "MOT",
             "YURSA", "PALUS", "CINXIA", "TESSERA">>

B_NODES == <<"ODIN", "HELENE", "CASTA", "BODE", "MALVA", "LARES", "WAHIBA",
             "CAMERIA", "SINAI">>

C_NODES == <<"TITAN", "OPHELIA", "CALYPSO", "CYTHEREAN", "HYENA",
             "OUTER TERMINUS">>

D_NODES == <<"UNDERTOW", "DIONE", "DESDEMONA", "TORMENT", "CARACOL">>

\* for n in NODES: if n in node: return ...
AnyIn(NODES, node) == \E i \in 1..Len(NODES) : In(NODES[i], node)

\* TypeFallback comparing the mission type for equality instead of "in"
TypeFallback_Exact(mtype) ==
    IF mtype = "INTERCEPTION" \/ mtype = "DEFENSE" THEN "B"
    ELSE IF mtype = "SURVIVAL" \/ mtype = "DISRUPTION" THEN "C"
    ELSE IF mtype = "EXCAVATION" THEN "C"
    ELSE "F"

\* TypeFallback answering the sentinel when no rule matches
TypeFallback_Sentinel(mtype) ==
    IF In("INTERCEPTION", mtype) \/ In("DEFENSE", mtype) THEN "B"
    ELSE IF In("SURVIVAL", mtype) \/ In("DISRUPTION", mtype) THEN "C"
    ELSE IF In("EXCAVATION", mtype) THEN "C"
    ELSE Inconnu

\* the mission-type fallback
TypeFallback(mtype) ==
    IF In("INTERCEPTION", mtype) \/ In("DEFENSE", mtype) THEN "B"
    ELSE IF In("SURVIVAL", mtype) \/ In("DISRUPTION", mtype) THEN "C"
    ELSE IF In("EXCAVATION", mtype) THEN "C"
    ELSE "F"

\* calculate_tier with the D table checked before the others
calculate_tier_DFirst(mission_type, node_name) ==
    Let(upper(node_name), LAMBDA node :
    Let(upper(mission_type), LAMBDA mtype :
        IF AnyIn(D_NODES, node) THEN "D"
        ELSE IF AnyIn(S_NODES, node) THEN "S"
        ELSE IF AnyIn(A_NODES, node) THEN "A"
        ELSE IF AnyIn(B_NODES, node) THEN "B"
        ELSE IF AnyIn(C_NODES, node) THEN "C"
        ELSE TypeFallback(mtype)))

calculate_tier(mission_type, node_name) ==
    Let(upper(node_name), LAMBDA node :
    Let(upper(mission_type), LAMBDA mtype :
        IF AnyIn(S_NODES, node) THEN "S"
        ELSE IF AnyIn(A_NODES, node) THEN "A"
        ELSE IF AnyIn(B_NODES, node) THEN "B"
        ELSE IF AnyIn(C_NODES, node) THEN "C"
        ELSE IF AnyIn(D_NODES, node) THEN "D"
        ELSE TypeFallback(mtype)))

(***************************************************************************)
(* Inputs of the classifier: mission types and map names as the metadata   *)
(* source and the assembler produce them.                                  *)
(***************************************************************************)
MissionTypes ==
    {"Defense", "defense", "Interception", "Survival", "Disruption",
     "Excavation", "Sabotage", "Mobile Defense", "Defection", ""}

MapNames ==
    {"Akkad", "akkad", "Akkad, Eris", "UnknownMap", "Caracol", "Yursa",
     "Titan", "Titan, Saturn", "Outer Terminus", "Undertow", "Odin",
     "Hieracon", "Stöfler", "Lost Passage, Lua", ""}

\* number of successive calls of calculate_tier on the same arguments
MaxCalls == 2

\* one call of calculate_tier on the arguments drawn at Init
calculate_tier_call ==
    /\ Len(tier_outs) < MaxCalls
    /\ tier_outs' = Append(tier_outs,
                           calculate_tier(tier_args.mission_type, tier_args.node_name))
    /\ UNCHANGED <<tier_args, procVars, cogVars>>

\* the Loop object before start(): no task, no iteration scheduled; started
\* counts the calls of start(), fired lists the clock values at which the
\* iterations began and inflight counts the iterations whose body runs
NoLoop ==
    [running |-> FALSE, started |-> 0, next_iteration |-> 0, current_loop |-> 0,
     fired |-> << >>, inflight |-> 0]

\* no coroutine exists
NoProcs ==
    /\ now = 0
    /\ pc = << >>
    /\ fetch = << >>
    /\ loc = << >>
    /\ upstream = "none"
    /\ script = << >>
    /\ wire = << >>
    /\ config = << >>
    /\ chat = << >>
    /\ hourly_loop = NoLoop

InitTier ==
    /\ tier_args \in [mission_type : MissionTypes, node_name : MapNames]
    /\ tier_outs = << >>
    /\ NoProcs

NextTier == calculate_tier_call

SpecTier == InitTier /\ [][NextTier]_vars

(***************************************************************************)
(* parse_node_id_from_txt                                                  *)
(***************************************************************************)
SecondsPerHour == 3600

\* int(time.time() // 3600) * 3600 at clock value t
current_hour_start(t) == (t \div SecondsPerHour) * SecondsPerHour

\* the body of the for loop with a timestamp that is no integer read as 0
read_line_ZeroOnError(raw) ==
    Let(strip(raw), LAMBDA line :
        IF line = "" \/ ~In(",", line) THEN [skip |-> TRUE]
        ELSE Let(split1(line, ","), LAMBDA parts :
             Let(int(strip(parts[1])), LAMBDA ts :
                 [skip |-> FALSE, ts |-> IF ts.isNone THEN 0 ELSE ts.val,
                  node_id |-> strip(parts[2])])))

\* the body of the for loop on one line: "skip" for continue, else the
\* pair (ts, node_id) read from the line
read_line(raw) ==
    Let(strip(raw), LAMBDA line :
        IF line = "" \/ ~In(",", line) THEN [skip |-> TRUE]
        ELSE Let(split1(line, ","), LAMBDA parts :
             Let(int(strip(parts[1])), LAMBDA ts :
                 IF ts.isNone THEN [skip |-> TRUE]
                 ELSE [skip |-> FALSE, ts |-> ts.val, node_id |-> strip(parts[2])])))

RECURSIVE first_at(_, _)
\* the for loop of parse_node_id_from_txt: return at the first line whose
\* timestamp is hour
first_at(lines, hour) ==
    IF lines = << >> THEN None
    ELSE Let(read_line(Head(lines)), LAMBDA e :
             IF ~e.skip /\ e.ts = hour THEN Some(e.node_id)
             ELSE first_at(Tail(lines), hour))

\* parse_node_id_from_txt, called while time.time() is t
parse_node_id_from_txt(txt_content, t) ==
    Let(current_hour_start(t), LAMBDA hour :
    Let(splitlines(strip(txt_content)), LAMBDA lines :
        first_at(lines, hour)))

(***************************************************************************)
(* The schedule feed as the upstream source writes it: a list of lines,    *)
(* each a timestamp, a comma and the rest of the line (the node            *)
(* identifier, possibly followed by a comma and free-form text), or a line *)
(* of some other shape.                                                    *)
(***************************************************************************)
Entry(ts, rest) == [kind |-> "entry", ts |-> ts, rest |-> rest, pad |-> FALSE]

\* the same line written with blanks around its fields
Padded(ts, rest) == [kind |-> "entry", ts |-> ts, rest |-> rest, pad |-> TRUE]

\* a line that is no entry
Raw(text) == [kind |-> "raw", ts |-> 0, rest |-> text, pad |-> FALSE]

RenderLine(l) ==
    IF l.kind = "raw" THEN l.rest
    ELSE IF l.pad THEN " " \o str(l.ts) \o " , " \o l.rest \o " "
    ELSE str(l.ts) \o "," \o l.rest

RECURSIVE RenderFeed(_)
\* the text of the feed, one line per element
RenderFeed(ls) ==
    IF ls = << >> THEN "" ELSE RenderLine(Head(ls)) \o "\n" \o RenderFeed(Tail(ls))

\* the lines a feed of the parser specification is made of
ParseLines ==
    {Entry(3600, "NodeX"), Entry(3600, "NodeY"), Entry(7200, "NodeX"),
     Entry(7200, "NodeY"), Entry(3600, "NodeX,S tier"), Entry(7200, "NodeY,(A tier)"),
     Padded(3600, "NodeY"), Entry(3600, ""),
     Raw(""), Raw("garbage"), Raw("abc,NodeX")}

\* the most lines of a feed of the parser specification
MaxFeedLines == 2

\* the sequences of at most n elements of S
SeqUpTo(S, n) == UNION {[1..k -> S] : k \in 0..n}

\* the clock values at which the parser is called
ParseClock == {3600, 5400, 7199, 7200, 10800}

\* the clock values of the assembler specification
ArbClock == {3600, 5400, 7200}

\* the clock values of the scanner specification
ScanClock == {1800, 3600}

\* the clock values of the scheduler specification: half past, the hour
\* boundaries and one second after them
SchedClock == {1800, 3600, 3601, 7200, 7201, 10800}

\* the clock values at which the three line readers are compared
LinesClock == {1800, 3600, 7200}

\* the instants the clock of a behaviour goes through
ClockValues ==
    CASE upstream = "parse" -> ParseClock
      [] upstream = "arb" -> ArbClock
      [] upstream = "scan" -> ScanClock
      [] upstream = "sched" -> SchedClock
      [] upstream = "lines" -> LinesClock
      [] OTHER -> {}

\* one call of parse_node_id_from_txt on the text drawn at Init
parse_call(p) ==
    /\ pc[p] = "parse"
    /\ loc' = [loc EXCEPT ![p] =
                 [@ EXCEPT !.node_id = parse_node_id_from_txt(loc[p].txt, now),
                           !.at = now]]
    /\ pc' = [pc EXCEPT ![p] = "done"]
    /\ UNCHANGED <<tierVars, cogVars, now, fetch, upstream, script, wire>>

\* the clock advances to a later instant of the same or a later hour
Tick ==
    /\ \E t \in ClockValues : t > now /\ now' = t
    /\ UNCHANGED <<tierVars, cogVars, pc, fetch, loc, upstream, script, wire>>

InitParse ==
    /\ tier_args = [mission_type |-> "", node_name |-> ""]
    /\ tier_outs = << >>
    /\ now \in ParseClock
    /\ upstream = "parse"
    /\ script = << >>
    /\ wire = << >>
    /\ config = << >>
    /\ chat = << >>
    /\ hourly_loop = NoLoop
    /\ pc = [u |-> "parse"]
    /\ fetch = [u |-> [fn |-> "none"]]
    /\ \E feed \in SeqUpTo(ParseLines, MaxFeedLines) :
         loc = [u |-> [feed |-> feed, txt |-> RenderFeed(feed),
                       node_id |-> None, at |-> 0]]

NextParse ==
    \/ \E p \in DOMAIN pc : parse_call(p)
    \/ Tick

SpecParse == InitParse /\ [][NextParse]_vars

(***************************************************************************)
(* The two upstream sources.  A fetch_text response body is a str, a       *)
(* fetch_json response body is the parsed JSON object (a dict).            *)
(***************************************************************************)
\* node records of the metadata source: {"value": ..., "type": ..., "enemy": ...}
NodeAkkad == [value |-> "Akkad (Eris)", type |-> "Defense", enemy |-> "Infested"]

NodeTitan == [value |-> "Titan (Saturn)", type |-> "Survival", enemy |-> "Grineer"]

\* a worldstate with a single node
WorldOne == [NodeX |-> NodeAkkad]

\* every field present, labels of the form "Name (Planet)"
WorldFull == [NodeX |-> NodeAkkad, NodeY |-> NodeTitan]

\* a label without planet, a record without type
WorldPartial ==
    [NodeX |-> [value |-> "Odin", type |-> "Defense", enemy |-> "Grineer"],
     NodeY |-> [value |-> "Apollo (Lua)", enemy |-> "Sentient"]]

\* a record with a type only, an empty record
WorldSparse == [NodeX |-> [type |-> "Sabotage"], NodeY |-> << >>]

\* empty type and enemy, a type that is literally the sentinel
WorldOdd ==
    [NodeX |-> [value |-> "Akkad (Eris)", type |-> "", enemy |-> ""],
     NodeY |-> [value |-> "Hydron (Sedna)", type |-> Inconnu, enemy |-> "Grineer"]]

\* the worldstates of the assembler specification; << >> is the empty object
ArbWorlds == {WorldFull, WorldPartial, WorldSparse, WorldOdd, << >>}

\* the lines a feed of the assembler specification is made of
ArbLines ==
    {Entry(3600, "NodeX"), Entry(3600, "NodeY"), Entry(7200, "NodeY"),
     Entry(3600, "NodeZ"), Entry(3600, "NodeX,S tier"), Entry(3600, ""),
     Raw("garbage")}

\* the node identifiers of the feeds of the scanner specification
ScanIds == {"NodeX", "NodeY"}

\* the most lines of a feed of the scanner specification
MaxScanLines == 5

\* the feed lists its hours in ascending or in descending order
ScanOrders == {"asc", "desc"}

\* the timestamp of line i of k
ScanTs(order, k, i) ==
    IF order = "asc" THEN SecondsPerHour * i ELSE SecondsPerHour * (k + 1 - i)

\* the feeds of the scanner specification: one entry per hour from 01:00 on
ScanFeeds ==
    UNION {{[i \in 1..k |-> Entry(ScanTs(order, k, i), ids[i])] :
               ids \in [1..k -> ScanIds], order \in ScanOrders} :
           k \in 0..MaxScanLines}

\* the worldstates of the scanner specification: NodeX is of tier S in all
\* three; NodeY is of tier C in WorldFull, of tier S in WorldOdd and unknown
\* to WorldOne
ScanWorlds == {WorldFull, WorldOdd, WorldOne}

\* the feeds the schedule source can serve, as lists of lines
TextBodies ==
    CASE upstream = "fetch" -> {<< >>, <<Entry(3600, "NodeX")>>}
      [] upstream = "arb" -> SeqUpTo(ArbLines, MaxFeedLines)
      [] upstream = "scan" -> ScanFeeds
      [] upstream \in {"sched", "chan"} -> {<<Entry(3600, "NodeX")>>}
      [] OTHER -> {}

\* the parsed JSON objects the metadata source can serve
JsonBodies ==
    CASE upstream = "fetch" -> {<< >>, WorldOne}
      [] upstream = "arb" -> ArbWorlds
      [] upstream = "scan" -> ScanWorlds
      [] upstream \in {"sched", "chan"} -> {WorldOne}
      [] OTHER -> {}

(***************************************************************************)
(* fetch_text / fetch_json                                                 *)
(***************************************************************************)
MAX_RETRIES == 3

RETRY_DELAY == 5

\* how one attempt (session.get, raise_for_status, reading the body) can end
Outcomes == {"ok", "ClientError", "HTTPStatus", "Timeout", "BadBody"}

\* except aiohttp.ClientError as e: a timeout is not caught
ExceptClientError(o) == o \in {"ClientError", "HTTPStatus"}

\* except Exception as e: the errors of an attempt are all Exceptions
ExceptException(o) == o \in {"ClientError", "HTTPStatus", "Timeout", "BadBody"}

\* no fetch is awaited
NoFetch ==
    [fn |-> "none", pc |-> "idle", attempt |-> 0, waits |-> 0, slept |-> 0,
     ret |-> None, sent |-> << >>]

\* the activation at the call: the for loop starts with attempt = 1
CallFetch(fn) ==
    [fn |-> fn, pc |-> "try", attempt |-> 1, waits |-> 0, slept |-> 0,
     ret |-> None, sent |-> << >>]

\* fetch_text with the loop running one attempt further
fetch_text_step_OneMore(f, o, body) ==
    IF o = "ok" THEN [f EXCEPT !.pc = "ret", !.ret = Some(body)]
    ELSE IF ~ExceptException(o) THEN [f EXCEPT !.pc = "raised"]
    ELSE IF f.attempt < MAX_RETRIES + 1 THEN [f EXCEPT !.pc = "sleep"]
    ELSE [f EXCEPT !.pc = "ret", !.ret = None]

\* one iteration of the for loop of fetch_text, the attempt ending in o
fetch_text_step(f, o, body) ==
    IF o = "ok" THEN [f EXCEPT !.pc = "ret", !.ret = Some(body)]
    ELSE IF ~ExceptException(o) THEN [f EXCEPT !.pc = "raised"]
    ELSE IF f.attempt < MAX_RETRIES THEN [f EXCEPT !.pc = "sleep"]
    ELSE [f EXCEPT !.pc = "ret", !.ret = None]

\* one iteration of the for loop of fetch_json, the attempt ending in o
fetch_json_step(f, o, body) ==
    IF o = "ok" THEN [f EXCEPT !.pc = "ret", !.ret = Some(body)]
    ELSE IF ~ExceptException(o) THEN [f EXCEPT !.pc = "raised"]
    ELSE IF f.attempt < MAX_RETRIES THEN [f EXCEPT !.pc = "sleep"]
    ELSE [f EXCEPT !.pc = "ret", !.ret = None]

\* the wait growing with the attempt number
fetch_sleep_step_Growing(f) ==
    [f EXCEPT !.pc = "try", !.attempt = @ + 1, !.waits = @ + 1,
              !.slept = @ + RETRY_DELAY * f.attempt]

\* await asyncio.sleep(RETRY_DELAY), then the next iteration
fetch_sleep_step(f) ==
    [f EXCEPT !.pc = "try", !.attempt = @ + 1, !.waits = @ + 1,
              !.slept = @ + RETRY_DELAY]

\* the network answers the current request of p with outcome o
Requested(p, o) ==
    \/ script = << >>
    \/ /\ fetch[p].attempt <= Len(script)
       /\ o = script[fetch[p].attempt]

\* the record of the attempts made, kept while the requests are scripted
Logged(p, o, body) ==
    IF script = << >> THEN wire
    ELSE [wire EXCEPT ![p] =
            Append(@, [outcome |-> o,
                       body |-> IF o = "ok" THEN Some(body) ELSE None])]

\* the outcomes the sources of a behaviour give to a request
Answers == IF upstream \in {"sched", "chan"} THEN {"ok"} ELSE Outcomes

fetch_text_attempt(p) ==
    /\ fetch[p].fn = "fetch_text"
    /\ fetch[p].pc = "try"
    /\ \E o \in Answers :
         \E feed \in (IF o = "ok" THEN TextBodies ELSE {<< >>}) :
            /\ Requested(p, o)
            /\ fetch' = [fetch EXCEPT ![p] =
                           [fetch_text_step(@, o, RenderFeed(feed)) EXCEPT !.sent = feed]]
            /\ wire' = Logged(p, o, RenderFeed(feed))
    /\ UNCHANGED <<tierVars, cogVars, now, pc, loc, upstream, script>>

fetch_text_sleep(p) ==
    /\ fetch[p].fn = "fetch_text"
    /\ fetch[p].pc = "sleep"
    /\ fetch' = [fetch EXCEPT ![p] = fetch_sleep_step(@)]
    /\ UNCHANGED <<tierVars, cogVars, now, pc, loc, upstream, script, wire>>

fetch_json_attempt(p) ==
    /\ fetch[p].fn = "fetch_json"
    /\ fetch[p].pc = "try"
    /\ \E o \in Answers :
         \E body \in (IF o = "ok" THEN JsonBodies ELSE {<< >>}) :
            /\ Requested(p, o)
            /\ fetch' = [fetch EXCEPT ![p] = fetch_json_step(@, o, body)]
            /\ wire' = Logged(p, o, body)
    /\ UNCHANGED <<tierVars, cogVars, now, pc, loc, upstream, script>>

fetch_json_sleep(p) ==
    /\ fetch[p].fn = "fetch_json"
    /\ fetch[p].pc = "sleep"
    /\ fetch' = [fetch EXCEPT ![p] = fetch_sleep_step(@)]
    /\ UNCHANGED <<tierVars, cogVars, now, pc, loc, upstream, script, wire>>

(***************************************************************************)
(* A caller of the fetchers alone: coroutine "t" awaits fetch_text,        *)
(* coroutine "j" awaits fetch_json, both against the same scripted source. *)
(***************************************************************************)
\* length of the scripted sequence of request outcomes
MaxScript == 4

caller_call(p) ==
    /\ pc[p] = "call"
    /\ fetch' = [fetch EXCEPT ![p] = CallFetch(loc[p].fn)]
    /\ pc' = [pc EXCEPT ![p] = "await"]
    /\ UNCHANGED <<tierVars, cogVars, now, loc, upstream, script, wire>>

\* the awaited fetch ends: its value, or its exception, reaches the caller
caller_resume(p) ==
    /\ pc[p] = "await"
    /\ fetch[p].pc \in {"ret", "raised"}
    /\ pc' = [pc EXCEPT ![p] = IF fetch[p].pc = "raised" THEN "raised" ELSE "done"]
    /\ loc' = [loc EXCEPT ![p] = [@ EXCEPT !.ret = fetch[p].ret,
                                           !.attempts = fetch[p].attempt,
                                           !.waits = fetch[p].waits,
                                           !.slept = fetch[p].slept]]
    /\ fetch' = [fetch EXCEPT ![p] = NoFetch]
    /\ UNCHANGED <<tierVars, cogVars, now, upstream, script, wire>>

InitFetch ==
    /\ tier_args = [mission_type |-> "", node_name |-> ""]
    /\ tier_outs = << >>
    /\ now = 0
    /\ upstream = "fetch"
    /\ script \in [1..MaxScript -> Outcomes]
    /\ pc = [t |-> "call", j |-> "call"]
    /\ fetch = [t |-> NoFetch, j |-> NoFetch]
    /\ loc = [t |-> [fn |-> "fetch_text", ret |-> None, attempts |-> 0,
                     waits |-> 0, slept |-> 0],
              j |-> [fn |-> "fetch_json", ret |-> None, attempts |-> 0,
                     waits |-> 0, slept |-> 0]]
    /\ wire = [t |-> << >>, j |-> << >>]
    /\ config = << >>
    /\ chat = << >>
    /\ hourly_loop = NoLoop

NextFetch ==
    \/ \E p \in DOMAIN pc : caller_call(p)
    \/ \E p \in DOMAIN pc : fetch_text_attempt(p)
    \/ \E p \in DOMAIN pc : fetch_text_sleep(p)
    \/ \E p \in DOMAIN pc : fetch_json_attempt(p)
    \/ \E p \in DOMAIN pc : fetch_json_sleep(p)
    \/ \E p \in DOMAIN pc : caller_resume(p)

SpecFetch == InitFetch /\ [][NextFetch]_vars

(***************************************************************************)
(* extract_node_info                                                       *)
(***************************************************************************)
RECURSIVE split(_, _)
\* str.split(sep)
split(s, sep) ==
    Let(Find(sep, s), LAMBDA i :
        IF i = 0 THEN <<s>>
        ELSE <<SubSeq(s, 1, i - 1)>> \o split(SubSeq(s, i + Len(sep), Len(s)), sep))

RECURSIVE remove(_, _)
\* str.replace(c, "") for a one-character c
remove(s, c) ==
    IF s = "" THEN ""
    ELSE (IF Head(s) = c THEN "" ELSE Head(s)) \o remove(Tail(s), c)

\* dict.get(k)
dict_get(d, k) == IF k \in DOMAIN d THEN Some(d[k]) ELSE None

\* dict.get(k, default)
dict_get_or(d, k, default) == IF k \in DOMAIN d THEN d[k] ELSE default

\* extract_node_info leaving the closing parenthesis in the planet
extract_node_info_KeepParen(worldstate, node_id) ==
    Let(dict_get(worldstate, node_id), LAMBDA node :
        IF node.isNone \/ DOMAIN node.val = {} THEN None
        ELSE Let(dict_get_or(node.val, "value", node_id), LAMBDA full_name :
             Let(In(" (", full_name), LAMBDA named :
                 Some([planet       |-> IF named THEN split(full_name, " (")[2]
                                        ELSE Inconnu,
                       node_name    |-> IF named THEN split(full_name, " (")[1]
                                        ELSE full_name,
                       mission_type |-> dict_get_or(node.val, "type", Inconnu),
                       faction      |-> dict_get_or(node.val, "enemy", Inconnu)]))))

\* None when node_id is absent or its record is empty (if node:)
extract_node_info(worldstate, node_id) ==
    Let(dict_get(worldstate, node_id), LAMBDA node :
        IF node.isNone \/ DOMAIN node.val = {} THEN None
        ELSE Let(dict_get_or(node.val, "value", node_id), LAMBDA full_name :
             Let(In(" (", full_name), LAMBDA named :
                 Some([planet       |-> IF named
                                        THEN Let(split(full_name, " (")[2],
                                                 LAMBDA part : remove(part, ")"))
                                        ELSE Inconnu,
                       node_name    |-> IF named THEN split(full_name, " (")[1]
                                        ELSE full_name,
                       mission_type |-> dict_get_or(node.val, "type", Inconnu),
                       faction      |-> dict_get_or(node.val, "enemy", Inconnu)]))))

(***************************************************************************)
(* get_current_arbitration                                                 *)
(***************************************************************************)
\* if x: on an Optional str
Truthy(x) == ~x.isNone /\ x.val # ""

\* if x: on an Optional dict
TruthyDict(x) == ~x.isNone /\ DOMAIN x.val # {}

\* the result record as first assigned
ResultDefaults ==
    [carte |-> Inconnue, faction |-> Inconnue, type |-> Inconnu, tier |-> Inconnu]

\* the frame of get_current_arbitration at its start; feed, at and steps
\* record what the invocation was served, when it parsed and what it did
GcaFrame ==
    [result |-> ResultDefaults, txt |-> None, node_id |-> None,
     worldstate |-> None, node_info |-> None,
     feed |-> << >>, at |-> 0, steps |-> <<"fetch_text">>]

\* the three assignments made when node_info is found
enrich(result, node_info) ==
    [result EXCEPT !.carte   = node_info.node_name \o ", " \o node_info.planet,
                   !.faction = node_info.faction,
                   !.type    = node_info.mission_type]

\* step 3 without its test of the mission type
classify_result_Always(result) ==
    [result EXCEPT !.tier = calculate_tier(result.type, result.carte)]

\* step 3: the tier is computed unless the mission type is the sentinel
classify_result(result) ==
    IF result.type # Inconnu
    THEN [result EXCEPT !.tier = calculate_tier(result.type, result.carte)]
    ELSE result

\* the frame after step 3, about to be returned
gca_finish(fr) ==
    [fr EXCEPT !.result = classify_result(fr.result),
               !.steps  = IF fr.result.type # Inconnu THEN Append(@, "classify") ELSE @]

\* the frame once fetch_text has returned txt, served from the lines sent,
\* at clock value t: step 1
gca_step1(fr, txt, sent, t) ==
    [fr EXCEPT !.txt     = txt,
               !.feed    = sent,
               !.at      = t,
               !.node_id = IF Truthy(txt) THEN parse_node_id_from_txt(txt.val, t)
                           ELSE None,
               !.steps   = IF Truthy(txt) THEN Append(@, "parse") ELSE @]

\* the frame once fetch_json has returned worldstate: step 2
gca_step2(fr, worldstate) ==
    Let(IF TruthyDict(worldstate)
        THEN extract_node_info(worldstate.val, fr.node_id.val)
        ELSE None, LAMBDA node_info :
        [fr EXCEPT !.worldstate = worldstate,
                   !.node_info  = node_info,
                   !.result     = IF node_info.isNone THEN @
                                  ELSE enrich(@, node_info.val),
                   !.steps      = IF TruthyDict(worldstate) THEN Append(@, "extract")
                                  ELSE @])

\* where p continues once get_current_arbitration has returned: in
\* _notify_now when p runs it, else p is the caller and is done
ReturnPc(p) == IF "scan" \in DOMAIN loc[p] THEN "nn_data" ELSE "done"

\* what p awaits next once get_current_arbitration has returned
ReturnFetch(p) == NoFetch

\* the call: result is initialised, the session opened, fetch_text awaited
gca_start(p) ==
    /\ pc[p] = "gca"
    /\ loc' = [loc EXCEPT ![p].gca = GcaFrame]
    /\ fetch' = [fetch EXCEPT ![p] = CallFetch("fetch_text")]
    /\ pc' = [pc EXCEPT ![p] = "gca_txt"]
    /\ UNCHANGED <<tierVars, cogVars, now, upstream, script, wire>>

\* fetch_text has ended: parse, then either await fetch_json or finish
gca_txt(p) ==
    /\ pc[p] = "gca_txt"
    /\ fetch[p].pc \in {"ret", "raised"}
    /\ IF fetch[p].pc = "raised"
       THEN /\ pc' = [pc EXCEPT ![p] = "raised"]
            /\ fetch' = [fetch EXCEPT ![p] = NoFetch]
            /\ UNCHANGED loc
       ELSE \E fr \in {gca_step1(loc[p].gca, fetch[p].ret, fetch[p].sent, now)} :
                IF Truthy(fr.node_id)
                THEN /\ loc' = [loc EXCEPT ![p].gca =
                                   [fr EXCEPT !.steps = Append(@, "fetch_json")]]
                     /\ fetch' = [fetch EXCEPT ![p] = CallFetch("fetch_json")]
                     /\ pc' = [pc EXCEPT ![p] = "gca_ws"]
                ELSE /\ loc' = [loc EXCEPT ![p].gca = gca_finish(fr)]
                     /\ fetch' = [fetch EXCEPT ![p] = ReturnFetch(p)]
                     /\ pc' = [pc EXCEPT ![p] = ReturnPc(p)]
    /\ UNCHANGED <<tierVars, cogVars, now, upstream, script, wire>>

\* fetch_json has ended: resolve the node, classify, return
gca_ws(p) ==
    /\ pc[p] = "gca_ws"
    /\ fetch[p].pc \in {"ret", "raised"}
    /\ IF fetch[p].pc = "raised"
       THEN /\ pc' = [pc EXCEPT ![p] = "raised"]
            /\ fetch' = [fetch EXCEPT ![p] = NoFetch]
            /\ UNCHANGED loc
       ELSE /\ \E fr \in {gca_step2(loc[p].gca, fetch[p].ret)} :
                   loc' = [loc EXCEPT ![p].gca = gca_finish(fr)]
            /\ fetch' = [fetch EXCEPT ![p] = ReturnFetch(p)]
            /\ pc' = [pc EXCEPT ![p] = ReturnPc(p)]
    /\ UNCHANGED <<tierVars, cogVars, now, upstream, script, wire>>

InitArb ==
    /\ tier_args = [mission_type |-> "", node_name |-> ""]
    /\ tier_outs = << >>
    /\ now \in ArbClock
    /\ upstream = "arb"
    /\ script = << >>
    /\ wire = << >>
    /\ config = << >>
    /\ chat = << >>
    /\ hourly_loop = NoLoop
    /\ pc = [g |-> "gca"]
    /\ fetch = [g |-> NoFetch]
    /\ loc = [g |-> [gca |-> GcaFrame]]

\* the steps of the coroutines: the event loop runs whichever is ready
Run ==
    \/ \E p \in DOMAIN pc : gca_start(p)
    \/ \E p \in DOMAIN pc : fetch_text_attempt(p)
    \/ \E p \in DOMAIN pc : fetch_text_sleep(p)
    \/ \E p \in DOMAIN pc : gca_txt(p)
    \/ \E p \in DOMAIN pc : fetch_json_attempt(p)
    \/ \E p \in DOMAIN pc : fetch_json_sleep(p)
    \/ \E p \in DOMAIN pc : gca_ws(p)

NextArb ==
    \/ Run
    \/ Tick

\* every attempt is bounded by its ClientTimeout and every sleep by
\* RETRY_DELAY, so a coroutine that can step eventually does
SpecArb == InitArb /\ [][NextArb]_vars /\ WF_vars(Run)

(***************************************************************************)
(* The future scan of _notify_now and of nexts                             *)
(***************************************************************************)
\* the test of _notify_now letting the entry of the current hour in
is_future_notify_Inclusive(ts, hour) == ts >= hour

\* the test  if ts > current_hour_start  of _notify_now
is_future_notify(ts, hour) == ts > hour

\* the test  if ts >= current_hour_start  of nexts
is_future_nexts(ts, hour) == ts >= hour

RECURSIVE future_lines(_, _, _)
\* the for loop over the lines: the (ts, node_id) of the lines that are read
\* and pass the test of the calling function fn, in the order of the lines
future_lines(lines, hour, fn) ==
    IF lines = << >> THEN << >>
    ELSE Let(read_line(Head(lines)), LAMBDA e :
             (IF ~e.skip /\ (IF fn = "nexts" THEN is_future_nexts(e.ts, hour)
                             ELSE is_future_notify(e.ts, hour))
              THEN <<[ts |-> e.ts, node_id |-> e.node_id]>>
              ELSE << >>) \o future_lines(Tail(lines), hour, fn))

RECURSIVE insort(_, _)
\* x put after the elements of the sorted list whose ts is not greater
insort(sorted, x) ==
    IF sorted = << >> THEN <<x>>
    ELSE IF Head(sorted).ts <= x.ts THEN <<Head(sorted)>> \o insort(Tail(sorted), x)
    ELSE <<x>> \o sorted

RECURSIVE sort_by_ts(_)
\* list.sort(key=lambda x: x[0]): ascending ts, equal ts in their former order
sort_by_ts(nodes) ==
    IF nodes = << >> THEN << >>
    ELSE insort(sort_by_ts(SubSeq(nodes, 1, Len(nodes) - 1)), nodes[Len(nodes)])

\* the list future_nodes of fn for the text txt read at clock value t
future_nodes(txt, t, fn) ==
    Let(current_hour_start(t), LAMBDA hour :
    Let(splitlines(strip(txt)), LAMBDA lines :
        sort_by_ts(future_lines(lines, hour, fn))))

\* the break test letting a fourth result in
cap_reached_OffByOne(s_tier_results) == Len(s_tier_results) > 3

\* if len(s_tier_results) >= 3: break
cap_reached(s_tier_results) == Len(s_tier_results) >= 3

\* the dict appended to s_tier_results (nexts adds dt, the datetime of ts)
s_tier_entry(ts, node_info) ==
    [ts      |-> ts,
     carte   |-> node_info.node_name \o ", " \o node_info.planet,
     faction |-> node_info.faction,
     type    |-> node_info.mission_type]

\* tier = calculate_tier(node_info["mission_type"], node_info["node_name"])
scan_tier(node_info) == calculate_tier(node_info.mission_type, node_info.node_name)

RECURSIVE s_tier_loop(_, _, _)
\* the for loop over future_nodes; acc holds s_tier_results and, in resolved,
\* the node ids extract_node_info was called on
s_tier_loop(nodes, worldstate, acc) ==
    IF nodes = << >> \/ cap_reached(acc.s_tier_results) THEN acc
    ELSE Let(extract_node_info(worldstate, Head(nodes).node_id), LAMBDA node_info :
         Let([acc EXCEPT !.resolved = Append(@, Head(nodes).node_id)], LAMBDA acc1 :
             IF node_info.isNone THEN s_tier_loop(Tail(nodes), worldstate, acc1)
             ELSE IF scan_tier(node_info.val) = "S"
             THEN s_tier_loop(Tail(nodes), worldstate,
                      [acc1 EXCEPT !.s_tier_results =
                          Append(@, s_tier_entry(Head(nodes).ts, node_info.val))])
             ELSE s_tier_loop(Tail(nodes), worldstate, acc1)))

\* the channels bot.get_channel finds
Channels == {1, 3}

\* the frame of _notify_now or nexts at its start; feed and at record the
\* lines the scan was served and when it read the clock, scanned that the
\* loop over future_nodes has run
ScanFrame(fn) ==
    [fn |-> fn, channel |-> None, data |-> None, txt |-> None, worldstate |-> None,
     future_nodes |-> << >>, s_tier_results |-> << >>, resolved |-> << >>,
     feed |-> << >>, at |-> 0, scanned |-> FALSE, data_at |-> 0]

\* the frame after future_nodes was built from txt at clock value t
scan_feed(sc, t) ==
    [sc EXCEPT !.at = t, !.future_nodes = future_nodes(sc.txt.val, t, sc.fn)]

\* the frame after the loop over future_nodes
scan_s_tier(sc) ==
    Let(s_tier_loop(sc.future_nodes, sc.worldstate.val,
                    [s_tier_results |-> << >>, resolved |-> << >>]), LAMBDA acc :
        [sc EXCEPT !.s_tier_results = acc.s_tier_results,
                   !.resolved = acc.resolved,
                   !.scanned = TRUE])

\* where p continues once _notify_now has returned: in its caller (on_ready
\* or hourly_loop) when it has one
NotifyReturnPc(p) == IF "after" \in DOMAIN loc[p] THEN loc[p].after ELSE "done"

\* _notify_now up to its first await: the two channel tests, then the call
\* of get_current_arbitration
nn_start(p) ==
    /\ pc[p] = "notify"
    /\ \E channel_id \in {dict_get(config, "channel_id")} :
         IF channel_id.isNone \/ channel_id.val \notin Channels
         THEN /\ pc' = [pc EXCEPT ![p] = NotifyReturnPc(p)]
              /\ UNCHANGED loc
         ELSE /\ pc' = [pc EXCEPT ![p] = "gca"]
              /\ loc' = [loc EXCEPT ![p].scan.channel = channel_id]
    /\ UNCHANGED <<tierVars, cogVars, now, fetch, upstream, script, wire>>

\* get_current_arbitration has returned data: fetch_text is awaited
nn_data(p) ==
    /\ pc[p] = "nn_data"
    /\ loc' = [loc EXCEPT ![p].scan.data = Some(loc[p].gca.result),
                          ![p].scan.data_at = loc[p].gca.at,
                          ![p].gca = GcaFrame]
    /\ fetch' = [fetch EXCEPT ![p] = CallFetch("fetch_text")]
    /\ pc' = [pc EXCEPT ![p] = "nn_txt"]
    /\ UNCHANGED <<tierVars, cogVars, now, upstream, script, wire>>

\* fetch_text has ended: fetch_json is awaited, whatever txt is
nn_txt(p) ==
    /\ pc[p] = "nn_txt"
    /\ fetch[p].pc \in {"ret", "raised"}
    /\ IF fetch[p].pc = "raised"
       THEN /\ pc' = [pc EXCEPT ![p] = NotifyReturnPc(p)]
            /\ fetch' = [fetch EXCEPT ![p] = NoFetch]
            /\ UNCHANGED loc
       ELSE /\ loc' = [loc EXCEPT ![p].scan.txt = fetch[p].ret,
                                 ![p].scan.feed = fetch[p].sent]
            /\ fetch' = [fetch EXCEPT ![p] = CallFetch("fetch_json")]
            /\ pc' = [pc EXCEPT ![p] = "nn_ws"]
    /\ UNCHANGED <<tierVars, cogVars, now, upstream, script, wire>>

\* the embeds of the message of _notify_now
nn_embeds(sc) ==
    <<sc.data.val>> \o (IF sc.s_tier_results # << >> THEN <<sc.s_tier_results>>
                        ELSE << >>)

\* the frame of _notify_now once fetch_json has returned worldstate at
\* clock value t
nn_scan(sc, worldstate, t) ==
    Let([sc EXCEPT !.worldstate = worldstate], LAMBDA sc1 :
        IF Truthy(sc1.txt) /\ TruthyDict(worldstate)
        THEN scan_s_tier(scan_feed(sc1, t))
        ELSE sc1)

\* the channel of channel.send with the configuration read again
send_target_Reread(sc, cfg) == cfg.channel_id

\* the channel of channel.send: the one got from the configuration before
\* the first await, whatever the configuration cfg is by now
send_target(sc, cfg) == sc.channel.val

\* fetch_json has ended: the scan, then the two embeds are sent
nn_ws(p) ==
    /\ pc[p] = "nn_ws"
    /\ fetch[p].pc \in {"ret", "raised"}
    /\ IF fetch[p].pc = "raised"
       THEN UNCHANGED <<loc, chat>>
       ELSE \E sc \in {nn_scan(loc[p].scan, fetch[p].ret, now)} :
              /\ loc' = [loc EXCEPT ![p].scan = sc]
              /\ chat' = Append(chat, [to |-> send_target(sc, config),
                                       embeds |-> nn_embeds(sc), by |-> p])
    /\ fetch' = [fetch EXCEPT ![p] = NoFetch]
    /\ pc' = [pc EXCEPT ![p] = NotifyReturnPc(p)]
    /\ UNCHANGED <<tierVars, config, hourly_loop, now, upstream, script, wire>>

\* nexts up to its first await of a fetch
nx_start(p) ==
    /\ pc[p] = "nexts"
    /\ fetch' = [fetch EXCEPT ![p] = CallFetch("fetch_text")]
    /\ pc' = [pc EXCEPT ![p] = "nx_txt"]
    /\ UNCHANGED <<tierVars, cogVars, now, loc, upstream, script, wire>>

\* a reply of nexts to the interaction
followup(content) == [to |-> "interaction", embeds |-> content]

\* fetch_text has ended: without txt the command gives up, else future_nodes
\* is built and fetch_json awaited
nx_txt(p) ==
    /\ pc[p] = "nx_txt"
    /\ fetch[p].pc \in {"ret", "raised"}
    /\ IF fetch[p].pc = "raised" \/ ~Truthy(fetch[p].ret)
       THEN /\ chat' = Append(chat, followup(<<"error">>))
            /\ loc' = [loc EXCEPT ![p].scan.feed = fetch[p].sent]
            /\ fetch' = [fetch EXCEPT ![p] = NoFetch]
            /\ pc' = [pc EXCEPT ![p] = "done"]
       ELSE /\ loc' = [loc EXCEPT ![p].scan =
                          scan_feed([@ EXCEPT !.txt = fetch[p].ret,
                                              !.feed = fetch[p].sent], now)]
            /\ fetch' = [fetch EXCEPT ![p] = CallFetch("fetch_json")]
            /\ pc' = [pc EXCEPT ![p] = "nx_ws"]
            /\ UNCHANGED chat
    /\ UNCHANGED <<tierVars, config, hourly_loop, now, upstream, script, wire>>

\* fetch_json has ended: without worldstate the command gives up, else the
\* loop over future_nodes runs and its results are sent
nx_ws(p) ==
    /\ pc[p] = "nx_ws"
    /\ fetch[p].pc \in {"ret", "raised"}
    /\ IF fetch[p].pc = "raised" \/ ~TruthyDict(fetch[p].ret)
       THEN /\ chat' = Append(chat, followup(<<"error">>))
            /\ UNCHANGED loc
       ELSE \E sc \in {scan_s_tier([loc[p].scan EXCEPT !.worldstate = fetch[p].ret])} :
              /\ loc' = [loc EXCEPT ![p].scan = sc]
              /\ chat' = Append(chat, followup(IF sc.s_tier_results = << >>
                                               THEN <<"none">>
                                               ELSE <<sc.s_tier_results>>))
    /\ fetch' = [fetch EXCEPT ![p] = NoFetch]
    /\ pc' = [pc EXCEPT ![p] = "done"]
    /\ UNCHANGED <<tierVars, config, hourly_loop, now, upstream, script, wire>>

\* one invocation of _notify_now (coroutine n) or of nexts (coroutine x)
InitScan ==
    /\ tier_args = [mission_type |-> "", node_name |-> ""]
    /\ tier_outs = << >>
    /\ now \in ScanClock
    /\ upstream = "scan"
    /\ script = << >>
    /\ wire = << >>
    /\ chat = << >>
    /\ hourly_loop = NoLoop
    /\ \/ /\ config \in {<< >>, [channel_id |-> 1], [channel_id |-> 2]}
          /\ pc = [n |-> "notify"]
          /\ fetch = [n |-> NoFetch]
          /\ loc = [n |-> [gca |-> GcaFrame, scan |-> ScanFrame("_notify_now")]]
       \/ /\ config = [channel_id |-> 1]
          /\ pc = [x |-> "nexts"]
          /\ fetch = [x |-> NoFetch]
          /\ loc = [x |-> [scan |-> ScanFrame("nexts")]]

\* the steps of _notify_now and of nexts
RunScan ==
    \/ \E p \in DOMAIN pc : nn_start(p)
    \/ \E p \in DOMAIN pc : nn_data(p)
    \/ \E p \in DOMAIN pc : nn_txt(p)
    \/ \E p \in DOMAIN pc : nn_ws(p)
    \/ \E p \in DOMAIN pc : nx_start(p)
    \/ \E p \in DOMAIN pc : nx_txt(p)
    \/ \E p \in DOMAIN pc : nx_ws(p)

NextScan ==
    \/ Run
    \/ RunScan
    \/ Tick

SpecScan == InitScan /\ [][NextScan]_vars

(***************************************************************************)
(* The three readers of the feed (parse_node_id_from_txt and the loops of  *)
(* _notify_now and nexts that build future_nodes) applied to one text in   *)
(* which well-formed entries are mixed with lines of other shapes.         *)
(***************************************************************************)
\* the lines of such a feed: entries, blank lines, lines without a comma
\* and lines whose first field is no integer
MixedLines ==
    {Entry(3600, "NodeX"), Entry(7200, "NodeY"), Padded(3600, "NodeY"),
     Raw(""), Raw("  "), Raw("garbage"), Raw("3600"), Raw("abc,NodeX"),
     Raw("12x,NodeY")}

\* the most lines of such a feed
MaxMixedLines == 3

\* the three readers called on the text of p while time.time() is now
readers_call(p) ==
    /\ pc[p] = "readers"
    /\ loc' = [loc EXCEPT ![p] =
                 [@ EXCEPT !.node_id = parse_node_id_from_txt(loc[p].txt, now),
                           !.notify = future_nodes(loc[p].txt, now, "_notify_now"),
                           !.nexts = future_nodes(loc[p].txt, now, "nexts"),
                           !.at = now]]
    /\ pc' = [pc EXCEPT ![p] = "read"]
    /\ UNCHANGED <<tierVars, cogVars, now, fetch, upstream, script, wire>>

InitLines ==
    /\ tier_args = [mission_type |-> "", node_name |-> ""]
    /\ tier_outs = << >>
    /\ now \in LinesClock
    /\ upstream = "lines"
    /\ script = << >>
    /\ wire = << >>
    /\ config = << >>
    /\ chat = << >>
    /\ hourly_loop = NoLoop
    /\ pc = [m |-> "readers"]
    /\ fetch = [m |-> [fn |-> "none"]]
    /\ \E feed \in SeqUpTo(MixedLines, MaxMixedLines) :
         loc = [m |-> [feed |-> feed, txt |-> RenderFeed(feed), node_id |-> None,
                       notify |-> << >>, nexts |-> << >>, at |-> 0]]

NextLines ==
    \/ \E p \in DOMAIN pc : readers_call(p)
    \/ Tick

SpecLines == InitLines /\ [][NextLines]_vars

(***************************************************************************)
(* extract_node_info alone, called on a worldstate and a node id drawn     *)
(* from the records below.                                                 *)
(***************************************************************************)
\* records of the metadata: the full one, a label without planet, a label
\* with parentheses but not of the form "Name (Planet)", no label, no
\* field at all, empty type and enemy, no type
NodeRecords ==
    {NodeAkkad, NodeTitan,
     [value |-> "Odin", type |-> "Defense", enemy |-> "Grineer"],
     [value |-> "Apollo(Lua)", type |-> "Disruption", enemy |-> "Sentient"],
     [type |-> "Sabotage"],
     << >>,
     [value |-> "Akkad (Eris)", type |-> "", enemy |-> ""],
     [value |-> "Hydron (Sedna)", enemy |-> "Grineer"]}

\* the node ids asked for, and those the metadata may hold
NodeIds == {"NodeX", "NodeY", "NodeZ"}

\* the worldstates holding records for some of NodeX and NodeY
NodeWorlds == UNION {[ids -> NodeRecords] : ids \in SUBSET {"NodeX", "NodeY"}}

\* one call of extract_node_info
extract_call(p) ==
    /\ pc[p] = "extract"
    /\ loc' = [loc EXCEPT ![p].node_info =
                  extract_node_info(loc[p].worldstate, loc[p].node_id)]
    /\ pc' = [pc EXCEPT ![p] = "extracted"]
    /\ UNCHANGED <<tierVars, cogVars, now, fetch, upstream, script, wire>>

\* the node found is classified as get_current_arbitration does (steps 2
\* and 3 on the initial record), as the scan loops do, and by the loop of
\* nexts over the one entry of the hour 01:00 with this node id
classify_call(p) ==
    /\ pc[p] = "extracted"
    /\ ~loc[p].node_info.isNone
    /\ loc' = [loc EXCEPT ![p] =
                 [@ EXCEPT !.result = classify_result(enrich(ResultDefaults,
                                                             loc[p].node_info.val)),
                           !.tier = scan_tier(loc[p].node_info.val),
                           !.listed = s_tier_loop(
                               <<[ts |-> SecondsPerHour, node_id |-> loc[p].node_id]>>,
                               loc[p].worldstate,
                               [s_tier_results |-> << >>,
                                resolved |-> << >>]).s_tier_results]]
    /\ pc' = [pc EXCEPT ![p] = "classified"]
    /\ UNCHANGED <<tierVars, cogVars, now, fetch, upstream, script, wire>>

InitNode ==
    /\ tier_args = [mission_type |-> "", node_name |-> ""]
    /\ tier_outs = << >>
    /\ now = 0
    /\ upstream = "none"
    /\ script = << >>
    /\ wire = << >>
    /\ config = << >>
    /\ chat = << >>
    /\ hourly_loop = NoLoop
    /\ pc = [e |-> "extract"]
    /\ fetch = [e |-> [fn |-> "none"]]
    /\ \E worldstate \in NodeWorlds, node_id \in NodeIds :
         loc = [e |-> [worldstate |-> worldstate, node_id |-> node_id,
                       node_info |-> None, result |-> ResultDefaults,
                       tier |-> "", listed |-> << >>]]

NextNode ==
    \/ \E p \in DOMAIN pc : extract_call(p)
    \/ \E p \in DOMAIN pc : classify_call(p)

SpecNode == InitNode /\ [][NextNode]_vars

(***************************************************************************)
(* on_ready, hourly_loop and before_hourly_loop.  hourly_loop is a         *)
(* discord.ext.tasks.Loop with seconds=3600: start() creates one task,     *)
(* which runs before_hourly_loop once, then calls the body, waits until    *)
(* the iteration scheduled 3600 s after the previous one, and so on.       *)
(***************************************************************************)
\* elapsed = now % 3600; delay = 3600 - elapsed
alignment_delay_ZeroAtBoundary(t) ==
    (SecondsPerHour - (t % SecondsPerHour)) % SecondsPerHour

\* elapsed = now % 3600; delay = 3600 - elapsed
alignment_delay(t) == SecondsPerHour - (t % SecondsPerHour)

\* the test of on_ready with the loop never seen running
is_running_Never(loop) == FALSE

\* self.hourly_loop.is_running()
is_running(loop) == loop.running

\* the most iterations of hourly_loop in a behaviour
MaxTicks == 2

\* the frame of a coroutine that calls _notify_now and continues at after
CallerFrame(after) ==
    [gca |-> GcaFrame, scan |-> ScanFrame("_notify_now"), after |-> after,
     slept_at |-> 0, wake |-> 0]

\* on_ready up to the call of _notify_now: the slash commands are synced,
\* an error of the sync is logged
or_sync(p) ==
    /\ pc[p] = "on_ready"
    /\ pc' = [pc EXCEPT ![p] = "notify"]
    /\ UNCHANGED <<tierVars, cogVars, now, fetch, loc, upstream, script, wire>>

\* on_ready after _notify_now: the loop is started if it is not running;
\* start() on a running loop raises RuntimeError
or_loop(p) ==
    /\ pc[p] = "or_loop"
    /\ loc' = [loc EXCEPT ![p] = CallerFrame("or_loop")]
    /\ IF is_running(hourly_loop)
       THEN /\ pc' = [pc EXCEPT ![p] = "done"]
            /\ UNCHANGED hourly_loop
       ELSE IF hourly_loop.running
       THEN /\ pc' = [pc EXCEPT ![p] = "raised"]
            /\ hourly_loop' = [hourly_loop EXCEPT !.started = @ + 1]
       ELSE /\ pc' = [pc EXCEPT ![p] = "done", !["h"] = "before_loop"]
            /\ hourly_loop' = [hourly_loop EXCEPT !.running = TRUE, !.started = @ + 1]
    /\ UNCHANGED <<tierVars, config, chat, now, fetch, upstream, script, wire>>

\* before_hourly_loop: the bot is ready, the delay is computed from the
\* clock and slept
before_hourly_loop(p) ==
    /\ pc[p] = "before_loop"
    /\ loc' = [loc EXCEPT ![p].slept_at = now,
                          ![p].wake = now + alignment_delay(now)]
    /\ pc' = [pc EXCEPT ![p] = "align_sleep"]
    /\ UNCHANGED <<tierVars, cogVars, now, fetch, upstream, script, wire>>

\* the Loop object when an iteration begins at clock value t, the one
\* after it being due 3600 s after due
loop_iteration(loop, due, t) ==
    [loop EXCEPT !.next_iteration = due + SecondsPerHour,
                 !.fired = Append(@, t),
                 !.inflight = @ + 1]

\* the sleep of before_hourly_loop is over: the first iteration is due now
\* and hourly_loop calls _notify_now
hl_first(p) ==
    /\ pc[p] = "align_sleep"
    /\ now >= loc[p].wake
    /\ hourly_loop' = loop_iteration(hourly_loop, now, now)
    /\ pc' = [pc EXCEPT ![p] = "notify"]
    /\ UNCHANGED <<tierVars, config, chat, now, fetch, loc, upstream, script, wire>>

\* _notify_now has returned to hourly_loop: the task waits for the next
\* iteration; when that is already past, it is due at once and the schedule
\* either stays or restarts from the clock
hl_after(p) ==
    /\ pc[p] = "hl_after"
    /\ \E due \in (IF now > hourly_loop.next_iteration
                   THEN {hourly_loop.next_iteration, now}
                   ELSE {hourly_loop.next_iteration}) :
         /\ hourly_loop' = [hourly_loop EXCEPT !.next_iteration = due,
                                               !.current_loop = @ + 1,
                                               !.inflight = @ - 1]
         /\ loc' = [loc EXCEPT ![p] =
                      [CallerFrame("hl_after") EXCEPT !.slept_at = now, !.wake = due]]
    /\ pc' = [pc EXCEPT ![p] = "hl_sleep"]
    /\ UNCHANGED <<tierVars, config, chat, now, fetch, upstream, script, wire>>

\* the wait is over: the next iteration of hourly_loop calls _notify_now
hl_tick(p) ==
    /\ pc[p] = "hl_sleep"
    /\ now >= loc[p].wake
    /\ Len(hourly_loop.fired) < MaxTicks
    /\ hourly_loop' = loop_iteration(hourly_loop, hourly_loop.next_iteration, now)
    /\ pc' = [pc EXCEPT ![p] = "notify"]
    /\ UNCHANGED <<tierVars, config, chat, now, fetch, loc, upstream, script, wire>>

\* two on_ready events (r1, r2) and the task of hourly_loop (h), not yet
\* created
InitSched ==
    /\ tier_args = [mission_type |-> "", node_name |-> ""]
    /\ tier_outs = << >>
    /\ now \in SchedClock
    /\ upstream = "sched"
    /\ script = << >>
    /\ wire = << >>
    /\ chat = << >>
    /\ hourly_loop = NoLoop
    /\ config = [channel_id |-> 1]
    /\ pc = [r1 |-> "on_ready", r2 |-> "on_ready", h |-> "unstarted"]
    /\ fetch = [r1 |-> NoFetch, r2 |-> NoFetch, h |-> NoFetch]
    /\ loc = [r1 |-> CallerFrame("or_loop"), r2 |-> CallerFrame("or_loop"),
              h |-> CallerFrame("hl_after")]

\* the steps of on_ready and of the task of hourly_loop
RunSched ==
    \/ \E p \in DOMAIN pc : or_sync(p)
    \/ \E p \in DOMAIN pc : or_loop(p)
    \/ \E p \in DOMAIN pc : before_hourly_loop(p)
    \/ \E p \in DOMAIN pc : hl_first(p)
    \/ \E p \in DOMAIN pc : hl_after(p)
    \/ \E p \in DOMAIN pc : hl_tick(p)

\* the steps _notify_now takes in the scheduler specification, whose
\* sources answer every request
RunNotify ==
    \/ \E p \in DOMAIN pc : gca_start(p)
    \/ \E p \in DOMAIN pc : gca_txt(p)
    \/ \E p \in DOMAIN pc : gca_ws(p)
    \/ \E p \in DOMAIN pc : fetch_text_attempt(p)
    \/ \E p \in DOMAIN pc : fetch_json_attempt(p)
    \/ \E p \in DOMAIN pc : nn_start(p)
    \/ \E p \in DOMAIN pc : nn_data(p)
    \/ \E p \in DOMAIN pc : nn_txt(p)
    \/ \E p \in DOMAIN pc : nn_ws(p)

NextSched ==
    \/ RunNotify
    \/ RunSched
    \/ Tick

SpecSched == InitSched /\ [][NextSched]_vars

(***************************************************************************)
(* setchannel running beside two invocations of _notify_now (n1, n2) that  *)
(* start at any moment.                                                    *)
(***************************************************************************)
\* setchannel: the channel the user picked is stored in the configuration
\* (and saved), then the interaction is answered
setchannel(p) ==
    /\ pc[p] = "setchannel"
    /\ \E channel \in Channels :
         config' = [k \in DOMAIN config \cup {"channel_id"} |->
                       IF k = "channel_id" THEN channel ELSE config[k]]
    /\ chat' = Append(chat, followup(<<"setchannel">>))
    /\ pc' = [pc EXCEPT ![p] = "done"]
    /\ UNCHANGED <<tierVars, hourly_loop, now, fetch, loc, upstream, script, wire>>

\* the configuration holds no channel, a channel of the guild, or the id
\* of a channel that no longer exists
InitChannel ==
    /\ tier_args = [mission_type |-> "", node_name |-> ""]
    /\ tier_outs = << >>
    /\ now = SecondsPerHour
    /\ upstream = "chan"
    /\ script = << >>
    /\ wire = << >>
    /\ chat = << >>
    /\ hourly_loop = NoLoop
    /\ config \in {<< >>, [channel_id |-> 1], [channel_id |-> 2]}
    /\ pc = [n1 |-> "notify", n2 |-> "notify", c |-> "setchannel"]
    /\ fetch = [n1 |-> NoFetch, n2 |-> NoFetch, c |-> NoFetch]
    /\ loc = [n1 |-> [gca |-> GcaFrame, scan |-> ScanFrame("_notify_now")],
              n2 |-> [gca |-> GcaFrame, scan |-> ScanFrame("_notify_now")],
              c  |-> << >>]

NextChannel ==
    \/ RunNotify
    \/ \E p \in DOMAIN pc : setchannel(p)

SpecChannel == InitChannel /\ [][NextChannel]_vars

(***************************************************************************)
(* Properties of the tier classifier (SpecTier)                            *)
(***************************************************************************)
Tables == <<S_NODES, A_NODES, B_NODES, C_NODES, D_NODES>>

TableTiers == <<"S", "A", "B", "C", "D">>

\* the tables that have an entry occurring in the upper-cased name
Hits(name) ==
    {k \in 1..5 : \E i \in 1..Len(Tables[k]) : In(Tables[k][i], upper(name))}

Least(S) == CHOOSE k \in S : \A j \in S : k <= j

C5_FallbackByEquality ==
    \A i \in 1..Len(tier_outs) :
        LET m == upper(tier_args.mission_type)
        IN  Hits(tier_args.node_name) = {} =>
              tier_outs[i] = IF m \in {"INTERCEPTION", "DEFENSE"} THEN "B"
                             ELSE IF m \in {"SURVIVAL", "DISRUPTION", "EXCAVATION"} THEN "C"
                             ELSE "F"

\* C5 (amended): with no table match the tier is B when the upper-cased
\* mission type CONTAINS Interception or Defense, otherwise C when it contains
\* Survival, Disruption or Excavation, otherwise F; ("Interception",
\* "UnknownMap") gives B and ("Sabotage", "UnknownMap") gives F.
C5_FallbackBySubstring ==
    \A i \in 1..Len(tier_outs) :
        LET m  == upper(tier_args.mission_type)
            nm == tier_args.node_name
            b  == \E w \in {"INTERCEPTION", "DEFENSE"} : In(w, m)
            c  == \E w \in {"SURVIVAL", "DISRUPTION", "EXCAVATION"} : In(w, m)
        IN  /\ Hits(nm) = {} =>
                tier_outs[i] = IF b THEN "B" ELSE IF c THEN "C" ELSE "F"
            /\ (tier_args.mission_type = "Interception" /\ nm = "UnknownMap")
                  => tier_outs[i] = "B"
            /\ (tier_args.mission_type = "Sabotage" /\ nm = "UnknownMap")
                  => tier_outs[i] = "F"

\* the fallback has classified a mission type that contains, but is not, DEFENSE
C5_Witness ==
    /\ Len(tier_outs) > 0
    /\ tier_args.mission_type = "Mobile Defense"
    /\ tier_args.node_name = "UnknownMap"
    /\ Hits(tier_args.node_name) = {}
    /\ tier_outs[1] = "B"

OkRequests == {k \in 1..MAX_RETRIES : script[k] = "ok"}

\* what the caller p of a fetcher must have observed once the call is over
FetchContract(p) ==
    IF OkRequests # {}
    THEN LET k == Least(OkRequests)
         IN  /\ Len(wire[p]) = k
             /\ loc[p].attempts = k
             /\ ~loc[p].ret.isNone
             /\ loc[p].ret = wire[p][k].body
    ELSE /\ Len(wire[p]) = MAX_RETRIES
         /\ loc[p].attempts = MAX_RETRIES
         /\ loc[p].ret = None

\* C3: fetch_text and fetch_json make at most 3 attempts, return the body of
\* the first successful attempt and attempt nothing after it, return None
\* when the 3 attempts fail, never raise to the caller, and on the same
\* sequence of attempt outcomes make the same number of attempts and both
\* succeed or both fail.
C3_BoundedRetry ==
    /\ \A p \in DOMAIN pc :
          /\ Len(wire[p]) <= MAX_RETRIES
          /\ fetch[p].attempt <= MAX_RETRIES
          /\ pc[p] # "raised"
          /\ fetch[p].pc # "raised"
          /\ pc[p] = "done" => FetchContract(p)
    /\ (pc["t"] = "done" /\ pc["j"] = "done") =>
          /\ loc["t"].attempts = loc["j"].attempts
          /\ loc["t"].ret.isNone = loc["j"].ret.isNone

\* both fetchers have returned the body of the third attempt after a timeout
\* and a non-success status
C3_Witness ==
    /\ pc["t"] = "done"
    /\ pc["j"] = "done"
    /\ script[1] = "Timeout"
    /\ script[2] = "HTTPStatus"
    /\ script[3] = "ok"
    /\ loc["t"].attempts = 3
    /\ loc["j"].attempts = 3
    /\ loc["t"].ret = Some("3600,NodeX\n")
    /\ loc["j"].ret = Some(WorldOne)

(***************************************************************************)
(* Properties of the parser (SpecParse)                                    *)
(***************************************************************************)
\* floor(t / 3600) * 3600: the multiple of 3600 that starts the hour of t
HourOf(t) == CHOOSE h \in 0..t : h % 3600 = 0 /\ h <= t /\ t < h + 3600

\* the second comma-separated field of an entry line: its node identifier
NodeField(l) == strip(split1(l.rest, ",")[1])

\* every line is <unix-timestamp>,<node-identifier>[,free-form trailing text]
WellFormed(feed) ==
    \A i \in 1..Len(feed) : feed[i].kind = "entry" /\ NodeField(feed[i]) # ""

\* the positions of the lines of feed whose timestamp is hour
LinesAt(feed, hour) == {i \in 1..Len(feed) : feed[i].kind = "entry" /\ feed[i].ts = hour}

\* C2: on a feed of lines <unix-timestamp>,<node-identifier>[,free-form
\* trailing text], parse_node_id_from_txt called at clock value now returns
\* the second comma-separated field of the first line whose timestamp is
\* floor(now/3600)*3600, and None when no line has that timestamp.
C2_SecondFieldOfCurrentHour ==
    \A p \in DOMAIN pc :
        (pc[p] = "done" /\ WellFormed(loc[p].feed)) =>
            LET hits == LinesAt(loc[p].feed, HourOf(loc[p].at))
            IN  loc[p].node_id =
                    IF hits = {} THEN None
                    ELSE Some(NodeField(loc[p].feed[Least(hits)]))

(***************************************************************************)
(* Properties of the assembler (SpecArb)                                   *)
(***************************************************************************)
ResultFields == {"carte", "faction", "type", "tier"}

Tiers == {"S", "A", "B", "C", "D", "F"}

\* the values the type / enemy field key takes in the records of worldstate
FieldValues(worldstate, key) ==
    {worldstate[n][key] : n \in {m \in DOMAIN worldstate : key \in DOMAIN worldstate[m]}}

\* every field of r is present and holds a resolved value or a sentinel
FullRecord(r, worldstate) ==
    /\ DOMAIN r = ResultFields
    /\ r.carte = "Inconnue" \/ In(", ", r.carte)
    /\ r.faction \in {"Inconnue", "Inconnu"} \cup FieldValues(worldstate, "enemy")
    /\ r.type \in {"Inconnu"} \cup FieldValues(worldstate, "type")
    /\ r.tier \in {"Inconnu"} \cup Tiers

\* the worldstate an invocation obtained, the empty object when it got none
Obtained(fr) == IF fr.worldstate.isNone THEN << >> ELSE fr.worldstate.val

C1_Safe ==
    \A p \in DOMAIN pc :
        /\ pc[p] # "raised"
        /\ fetch[p].pc # "raised"
        /\ pc[p] = "done" => FullRecord(loc[p].gca.result, Obtained(loc[p].gca))

C1_Returned == \A p \in DOMAIN pc : pc[p] = "done"

\* C1: whatever the feed fetch, the parse, the metadata fetch and the node
\* resolution yield, get_current_arbitration never raises, eventually
\* returns, and the record it returns has its four fields, each a resolved
\* value or an Unknown sentinel.
C1_AlwaysFullRecord == []C1_Safe /\ <>C1_Returned

\* returned after the node id was found and the metadata fetch failed
C1_Witness ==
    /\ pc["g"] = "done"
    /\ Truthy(loc["g"].gca.node_id)
    /\ loc["g"].gca.steps = <<"fetch_text", "parse", "fetch_json">>
    /\ loc["g"].gca.worldstate = None
    /\ loc["g"].gca.result =
          [carte |-> "Inconnue", faction |-> "Inconnue", type |-> "Inconnu",
           tier |-> "Inconnu"]

\* names and planets as the metadata source labels them
PlainNames == {"Akkad", "Eris", "Titan", "Saturn", "Apollo", "Lua", "Hydron", "Sedna"}

\* the identifier of the feed's entry for the hour of t: what its first line
\* with that timestamp carries after the comma
EntryAt(feed, t) == strip(feed[Least(LinesAt(feed, HourOf(t)))].rest)

C8_FeedFailureAllUnknown ==
    \A p \in DOMAIN pc :
        (pc[p] \notin {"gca", "gca_txt"} /\ loc[p].gca.txt = None) =>
            /\ pc[p] = "done"
            /\ fetch[p] = NoFetch
            /\ loc[p].gca.steps = <<"fetch_text">>
            /\ loc[p].gca.result =
                  [carte |-> "Inconnue", faction |-> "Inconnue", type |-> "Inconnu",
                   tier |-> "Inconnu"]

\* returned after the three attempts of the feed fetch failed
C8_Witness ==
    /\ pc["g"] = "done"
    /\ loc["g"].gca.txt = None
    /\ loc["g"].gca.steps = <<"fetch_text">>
    /\ loc["g"].gca.result.tier = "Inconnu"

\* C9: in a returned record the tier is the sentinel exactly when the mission
\* type is the sentinel; a mission type that is not the sentinel has been
\* classified into S, A, B, C, D or F, the sentinel never has.
C9_TierUnknownIffTypeUnknown ==
    \A p \in DOMAIN pc :
        pc[p] = "done" =>
            LET r == loc[p].gca.result
            IN  /\ (r.tier = "Inconnu") <=> (r.type = "Inconnu")
                /\ r.type # "Inconnu" => r.tier \in Tiers
                /\ (\E i \in 1..Len(loc[p].gca.steps) : loc[p].gca.steps[i] = "classify")
                      <=> (r.type # "Inconnu")

\* the node resolved to a map of table A but its record carries no type
C9_Witness ==
    /\ pc["g"] = "done"
    /\ ~loc["g"].gca.node_info.isNone
    /\ loc["g"].gca.result =
          [carte |-> "Apollo, Lua", faction |-> "Sentient", type |-> "Inconnu",
           tier |-> "Inconnu"]

(***************************************************************************)
(* Properties of the future scan (SpecScan)                                *)
(***************************************************************************)
\* the positions of the forward entries of the feed a scan was served: the
\* entries after the hour of the scan, and in nexts those of that hour too
Forward(sc) ==
    {i \in 1..Len(sc.feed) :
        /\ sc.feed[i].kind = "entry"
        /\ IF sc.fn = "nexts" THEN sc.feed[i].ts >= HourOf(sc.at)
           ELSE sc.feed[i].ts > HourOf(sc.at)}

\* what the metadata the scan obtained says of the entry at position i
InfoOf(sc, i) == extract_node_info(sc.worldstate.val, NodeField(sc.feed[i]))

\* the forward entries that resolve in the metadata and classify as tier S
ForwardS(sc) ==
    {i \in Forward(sc) :
        /\ ~InfoOf(sc, i).isNone
        /\ calculate_tier(InfoOf(sc, i).val.mission_type,
                          InfoOf(sc, i).val.node_name) = "S"}

\* position j comes before position i in ascending timestamp order
Earlier(sc, j, i) ==
    \/ sc.feed[j].ts < sc.feed[i].ts
    \/ sc.feed[j].ts = sc.feed[i].ts /\ j < i

\* the rank of position i among the positions I, from 1
RankIn(sc, I, i) == Cardinality({j \in I : Earlier(sc, j, i)}) + 1

\* the position of rank r among I
AtRank(sc, I, r) == CHOOSE i \in I : RankIn(sc, I, i) = r

\* C10: the future scan of _notify_now and of nexts returns exactly the first
\* min(3, k) of the k forward entries that resolve in the metadata and
\* classify as tier S, in ascending timestamp order: never more than 3, never
\* an entry that is not S, and once 3 are collected no further entry is
\* resolved.  Of 5 forward entries with exactly 2 of tier S it returns
\* those 2.
C10_FirstThreeS ==
    \A p \in DOMAIN pc :
        loc[p].scan.scanned =>
            LET sc  == loc[p].scan
                res == sc.s_tier_results
                S   == ForwardS(sc)
                k   == Cardinality(S)
            IN  /\ Len(res) = (IF k < 3 THEN k ELSE 3)
                /\ Len(res) <= 3
                /\ \A r \in 1..Len(res) :
                      LET i == AtRank(sc, S, r)
                      IN  /\ res[r].ts = sc.feed[i].ts
                          /\ res[r] = s_tier_entry(sc.feed[i].ts, InfoOf(sc, i).val)
                          /\ calculate_tier(res[r].type, InfoOf(sc, i).val.node_name) = "S"
                /\ \A r \in 1..(Len(res) - 1) : res[r].ts <= res[r + 1].ts
                /\ Len(sc.resolved) =
                      (IF k >= 3 THEN RankIn(sc, Forward(sc), AtRank(sc, S, 3))
                       ELSE Cardinality(Forward(sc)))
                /\ \A r \in 1..Len(sc.resolved) :
                      sc.resolved[r] = NodeField(sc.feed[AtRank(sc, Forward(sc), r)])
                /\ (Cardinality(Forward(sc)) = 5 /\ k = 2) =>
                      /\ Len(res) = 2
                      /\ {res[r].ts : r \in 1..2} = {sc.feed[i].ts : i \in S}

\* _notify_now has scanned a feed listed in descending order, with 5 forward
\* entries of which the second and the fourth in time are of tier S
C10_Witness ==
    /\ "n" \in DOMAIN pc
    /\ pc["n"] = "done"
    /\ loc["n"].scan.scanned
    /\ loc["n"].scan.feed =
          <<Entry(18000, "NodeY"), Entry(14400, "NodeX"), Entry(10800, "NodeY"),
            Entry(7200, "NodeX"), Entry(3600, "NodeY")>>
    /\ loc["n"].scan.at = 1800
    /\ loc["n"].scan.worldstate = Some(WorldFull)
    /\ Cardinality(Forward(loc["n"].scan)) = 5
    /\ Cardinality(ForwardS(loc["n"].scan)) = 2
    /\ Len(loc["n"].scan.s_tier_results) = 2
    /\ loc["n"].scan.s_tier_results[1].ts = 7200
    /\ loc["n"].scan.s_tier_results[2].ts = 14400

(***************************************************************************)
(* Properties of the hourly scheduler (SpecSched)                          *)
(***************************************************************************)
\* the coroutines asleep in before_hourly_loop
Aligning == {p \in DOMAIN pc : pc[p] = "align_sleep"}

\* the first hour boundary strictly after clock value t
NextBoundary(t) == ((t \div SecondsPerHour) + 1) * SecondsPerHour

\* C11: the delay before_hourly_loop sleeps at clock value now is
\* 3600 - (now mod 3600): now + delay is the first hour boundary strictly
\* after now, 0 < delay <= 3600, and at HH:30:00 the delay is 1800 s.
C11_DelayToNextBoundary ==
    \A p \in Aligning :
        LET t == loc[p].slept_at
            delay == loc[p].wake - t
        IN  /\ delay = 3600 - (t % 3600)
            /\ t + delay = NextBoundary(t)
            /\ 0 < delay
            /\ delay <= 3600
            /\ (t % 3600 = 1800 => delay = 1800)

\* C11 witness: before_hourly_loop ran at HH:30:00 and sleeps 1800 s.
C11_Witness ==
    \E p \in Aligning : loc[p].slept_at = 1800 /\ loc[p].wake - loc[p].slept_at = 1800

\* the coroutines of the loop's task that wait for an iteration
Waiting == {p \in DOMAIN pc : pc[p] \in {"align_sleep", "hl_sleep"}}

\* C12 as stated: before every wait of the hourly loop the seconds until
\* the next hour boundary are recomputed from the clock, so every wait ends
\* at the first hour boundary after the clock value at which it began.
C12_RealignsEveryCycle ==
    upstream = "sched" =>
        \A p \in Waiting : loc[p].wake = NextBoundary(loc[p].slept_at)

\* the coroutines suspended in a fetch of _notify_now
InFetch == {p \in DOMAIN pc : fetch[p].fn # "none"}

\* C13: over any interleaving of on_ready events start() is called at most
\* once, and at most one iteration of hourly_loop has its _notify_now
\* running.
C13_OneTickInFlight ==
    /\ hourly_loop.started <= 1
    /\ hourly_loop.inflight <= 1
    /\ (hourly_loop.inflight = 0 => InFetch \subseteq {"r1", "r2"})

\* C13 witness: two on_ready events have returned, the loop was started
\* once and a second iteration has its _notify_now suspended in a fetch.
C13_Witness ==
    /\ upstream = "sched"
    /\ pc["r1"] = "done"
    /\ pc["r2"] = "done"
    /\ hourly_loop.started = 1
    /\ Len(hourly_loop.fired) = 2
    /\ "h" \in InFetch

\* C14 as stated: a _notify_now called by on_ready and one called by an
\* iteration of hourly_loop are never suspended in a fetch at the same
\* time.
C14_NoOverlap ==
    upstream = "sched" => ~("h" \in InFetch /\ InFetch \cap {"r1", "r2"} # {})

(***************************************************************************)
(* Properties of the order of the two fetches (SpecScan)                   *)
(***************************************************************************)
\* the invocation of p holds a node id read from the feed it fetched: the
\* current node in get_current_arbitration, an entry of the feed in the
\* two scans
HasNodeId(p) ==
    IF pc[p] \in {"nn_ws", "nx_ws"}
    THEN /\ Truthy(loc[p].scan.txt)
         /\ future_nodes(loc[p].scan.txt.val, 0, "nexts") # << >>
    ELSE ~loc[p].gca.node_id.isNone

\* C15 as stated: in every invocation the metadata fetch is issued only
\* after a node id has been obtained from the feed; a failed feed fetch or
\* a feed without node id is followed by no metadata fetch.
C15_MetadataAfterNodeId ==
    upstream = "scan" =>
        \A p \in DOMAIN pc : fetch[p].fn = "fetch_json" => HasNodeId(p)

(***************************************************************************)
(* Properties of the line readers (SpecLines)                              *)
(***************************************************************************)
\* the feed without its lines that are blank, without a comma or with a
\* first field that is no integer
WithoutMalformed(feed) == SelectSeq(feed, LAMBDA l : l.kind = "entry")

\* the coroutines that have called the three readers
HaveRead == {p \in DOMAIN pc : pc[p] = "read"}

\* C16: blank lines, lines without a comma and lines with a non-integer
\* timestamp never abort a parse: the current-node lookup and both forward
\* scans return what they return on the feed with those lines removed,
\* wherever the lines are placed.
C16_MalformedLinesSkipped ==
    \A p \in HaveRead :
        LET clean == RenderFeed(WithoutMalformed(loc[p].feed))
        IN  /\ loc[p].node_id = parse_node_id_from_txt(clean, loc[p].at)
            /\ loc[p].notify = future_nodes(clean, loc[p].at, "_notify_now")
            /\ loc[p].nexts = future_nodes(clean, loc[p].at, "nexts")

\* C16 witness: a feed with an entry of the current hour between a line
\* with a non-integer timestamp and a blank line was read, and the entry
\* was returned.
C16_Witness ==
    \E p \in HaveRead :
        /\ Len(loc[p].feed) = 3
        /\ loc[p].feed[1] = Raw("abc,NodeX")
        /\ loc[p].feed[2] = Entry(3600, "NodeX")
        /\ loc[p].feed[3] = Raw("")
        /\ loc[p].at = 3600
        /\ loc[p].node_id = Some("NodeX")
        /\ loc[p].nexts = <<[ts |-> 3600, node_id |-> "NodeX"]>>

(***************************************************************************)
(* Properties of the assembler under an outage of one source (SpecArb)     *)
(***************************************************************************)
\* the feed fetch of the invocation with frame fr failed
FeedDown(fr) == fr.txt = None

\* the feed yielded the current node id and the metadata fetch failed
MetadataDown(fr) == Truthy(fr.node_id) /\ fr.worldstate = None

\* C17 as stated: when exactly one of the two sources is unavailable (the
\* feed fetch fails, or the metadata fetch fails after the feed yielded
\* the current node id), the record get_current_arbitration returns is
\* not made up entirely of Unknown sentinels.
C17_SingleOutageDegrades ==
    upstream = "arb" =>
        \A p \in DOMAIN pc :
            (pc[p] = "done" /\ (FeedDown(loc[p].gca) \/ MetadataDown(loc[p].gca))) =>
                \E k \in ResultFields : loc[p].gca.result[k] # ResultDefaults[k]

(***************************************************************************)
(* Properties of the node resolver (SpecNode)                              *)
(***************************************************************************)
\* the coroutines that have called extract_node_info
Extracted == {p \in DOMAIN pc : pc[p] = "extracted"}

\* s holds no parenthesis
Plain(s) == \A i \in 1..Len(s) : SubSeq(s, i, i) \notin {"(", ")"}

\* the places where label divides as name, " (", planet, ")" with name and
\* planet free of parentheses
Divisions(label) ==
    {i \in 1..(Len(label) - 2) :
        /\ SubSeq(label, i, i + 1) = " ("
        /\ SubSeq(label, Len(label), Len(label)) = ")"
        /\ Plain(SubSeq(label, 1, i - 1))
        /\ Plain(SubSeq(label, i + 2, Len(label) - 1))}

\* the label of the record of node_id: its value field, else node_id
LabelOf(worldstate, node_id) ==
    IF "value" \in DOMAIN worldstate[node_id] THEN worldstate[node_id].value
    ELSE node_id

\* C18 as stated: a node id absent from the metadata yields None; a node
\* id present with a record never yields None, and its label is split as
\* "<name> (<planet>)": with the pattern present node_name is the name
\* part and planet the planet part, no parenthesis left in either,
\* otherwise node_name is the whole label and planet the sentinel.
C18_LabelSplitAndFound ==
    \A p \in Extracted :
        LET worldstate == loc[p].worldstate
            node_id == loc[p].node_id
            out == loc[p].node_info
        IN  IF node_id \notin DOMAIN worldstate THEN out = None
            ELSE /\ ~out.isNone
                 /\ LET label == LabelOf(worldstate, node_id)
                    IN  IF Divisions(label) # {}
                        THEN \A i \in Divisions(label) :
                               /\ out.val.node_name = SubSeq(label, 1, i - 1)
                               /\ out.val.planet = SubSeq(label, i + 2, Len(label) - 1)
                        ELSE /\ out.val.node_name = label
                             /\ out.val.planet = Inconnu

\* C19 as stated: for every record found, the mission_type and faction
\* returned are present and not the empty string; a type or enemy field
\* that is missing or empty resolves to the sentinel.
C19_TypeAndFactionNeverEmpty ==
    \A p \in Extracted :
        LET node == loc[p].worldstate[loc[p].node_id]
            out == loc[p].node_info
        IN  ~out.isNone =>
              /\ {"mission_type", "faction"} \subseteq DOMAIN out.val
              /\ out.val.mission_type # ""
              /\ out.val.faction # ""
              /\ ("type" \notin DOMAIN node \/ node.type = "") =>
                     out.val.mission_type = Inconnu
              /\ ("enemy" \notin DOMAIN node \/ node.enemy = "") =>
                     out.val.faction = Inconnu

(***************************************************************************)
(* Properties of the candidates of the two scans (SpecScan)                *)
(***************************************************************************)
\* the coroutines whose scan has built future_nodes
Built == {p \in DOMAIN pc : "scan" \in DOMAIN loc[p] /\ loc[p].scan.at > 0}

\* the positions of the feed of sc whose timestamp is from lo on
From(sc, lo) == {i \in 1..Len(sc.feed) : sc.feed[i].kind = "entry" /\ sc.feed[i].ts >= lo}

\* C20: with current_hour_start = floor(now/3600)*3600 read when the scan
\* runs, the candidates of the scan of _notify_now are the entries with
\* timestamp strictly greater than current_hour_start (never the entry of
\* the current hour), those of nexts are exactly the entries with
\* timestamp greater than or equal to it, and both lists are in ascending
\* timestamp order whatever the order of the lines.
C20_CandidatesOfTheScans ==
    \A p \in Built :
        LET sc == loc[p].scan
            current == (sc.at \div 3600) * 3600
            I == IF sc.fn = "nexts" THEN From(sc, current) ELSE From(sc, current + 1)
            cand == sc.future_nodes
        IN  /\ \A r \in 1..Len(cand) :
                  IF sc.fn = "nexts" THEN cand[r].ts >= current ELSE cand[r].ts > current
            /\ Len(cand) = Cardinality(I)
            /\ {<<cand[r].ts, cand[r].node_id>> : r \in 1..Len(cand)} =
                  {<<sc.feed[i].ts, NodeField(sc.feed[i])>> : i \in I}
            /\ \A r \in 1..(Len(cand) - 1) : cand[r].ts <= cand[r + 1].ts

\* C20 witness: _notify_now scanned at 01:00:00 a feed listing 03:00,
\* 02:00, 01:00 in this order; its candidates are 02:00 then 03:00.
C20_Witness ==
    \E p \in Built :
        /\ loc[p].scan.fn = "_notify_now"
        /\ loc[p].scan.at = 3600
        /\ Len(loc[p].scan.feed) = 3
        /\ loc[p].scan.feed[1].ts = 10800
        /\ loc[p].scan.feed[3].ts = 3600
        /\ Len(loc[p].scan.future_nodes) = 2
        /\ loc[p].scan.future_nodes[1].ts = 7200
        /\ loc[p].scan.future_nodes[2].ts = 10800

(***************************************************************************)
(* Properties of the backoff of the fetchers (SpecFetch)                   *)
(***************************************************************************)
\* the callers whose fetch is under way, and those whose fetch is over
Fetching == {p \in DOMAIN pc : fetch[p].fn \in {"fetch_text", "fetch_json"}}

Fetched == {p \in DOMAIN pc : pc[p] = "done" /\ "attempts" \in DOMAIN loc[p]}

\* C21: in fetch_text and fetch_json the 5-second wait happens exactly once
\* after each failed attempt that is followed by another attempt, never
\* after the last attempt or after a success: a call that fails 3 times
\* waits twice, a call that succeeds on attempt k waits k-1 times, and every
\* wait has the same length.
C21_FixedBackoff ==
    /\ \A p \in Fetching :
          /\ fetch[p].waits = fetch[p].attempt - 1
          /\ fetch[p].slept = 5 * fetch[p].waits
          /\ fetch[p].pc = "sleep" =>
                /\ fetch[p].attempt < 3
                /\ Len(wire[p]) = fetch[p].attempt
                /\ wire[p][Len(wire[p])].outcome # "ok"
    /\ \A p \in Fetched :
          /\ loc[p].waits = Len(wire[p]) - 1
          /\ loc[p].slept = 5 * loc[p].waits
          /\ loc[p].ret.isNone => loc[p].waits = 2
          /\ \A k \in 1..3 :
                (~loc[p].ret.isNone /\ Len(wire[p]) = k /\ wire[p][k].outcome = "ok") =>
                    loc[p].waits = k - 1

\* C21 witness: fetch_text and fetch_json have each failed 3 times (a
\* timeout, a transport error, a non-success status) and waited twice,
\* 10 s in all.
C21_Witness ==
    /\ upstream = "fetch"
    /\ script[1] = "Timeout"
    /\ script[2] = "ClientError"
    /\ script[3] = "HTTPStatus"
    /\ \A p \in {"t", "j"} :
          /\ pc[p] = "done"
          /\ loc[p].ret.isNone
          /\ loc[p].attempts = 3
          /\ loc[p].waits = 2
          /\ loc[p].slept = 10

(***************************************************************************)
(* Properties of the two classifications of a node (SpecNode)              *)
(***************************************************************************)
\* the coroutines that have classified the node they found
Classified == {p \in DOMAIN pc : pc[p] = "classified"}

\* C22 as stated: for every node that resolves with a known mission type,
\* the tier get_current_arbitration puts in the current record equals the
\* tier the scan loops compute for the same node; hence when the current
\* record has tier S, nexts over the same metadata lists the entry.
C22_SameTierInBothPaths ==
    \A p \in Classified :
        loc[p].node_info.val.mission_type # Inconnu =>
            /\ loc[p].result.tier = loc[p].tier
            /\ loc[p].result.tier = "S" => loc[p].listed # << >>

(***************************************************************************)
(* Properties of the two clock readings of _notify_now (SpecScan)          *)
(***************************************************************************)
\* the invocations of _notify_now whose current record was looked up in a
\* feed (at clock value data_at) and whose future scan has run
Bucketed ==
    {p \in Built : /\ loc[p].scan.fn = "_notify_now"
                   /\ loc[p].scan.scanned
                   /\ loc[p].scan.data_at > 0}

\* C23 as stated: within one _notify_now, whatever the clock does while
\* the invocation is suspended in its fetches, every feed entry with
\* timestamp at or after the hour used for the current record is the entry
\* of the current record or a candidate of the future scan.
C23_NoEntryLeftOut ==
    \A p \in Bucketed :
        LET sc == loc[p].scan
            used == (sc.data_at \div 3600) * 3600
        IN  \A i \in From(sc, used) :
                \/ sc.feed[i].ts = used
                \/ \E r \in 1..Len(sc.future_nodes) :
                       /\ sc.future_nodes[r].ts = sc.feed[i].ts
                       /\ sc.future_nodes[r].node_id = NodeField(sc.feed[i])

(***************************************************************************)
(* Properties of the target of a notification (SpecChannel)                *)
(***************************************************************************)
\* the invocations of _notify_now
Notifiers == {p \in DOMAIN pc : "scan" \in DOMAIN loc[p] /\ loc[p].scan.fn = "_notify_now"}

\* the positions of chat holding a notification
Notifications == {k \in 1..Len(chat) : "by" \in DOMAIN chat[k]}

\* the configuration names a channel that exists
Configured == "channel_id" \in DOMAIN config /\ config.channel_id \in {1, 3}

\* every notification went to the channel its invocation got when it
\* started, and an invocation that got none is in no fetch and has sent
\* nothing
C24_Delivered ==
    /\ \A k \in Notifications :
          /\ ~loc[chat[k].by].scan.channel.isNone
          /\ chat[k].to = loc[chat[k].by].scan.channel.val
    /\ \A p \in Notifiers :
          loc[p].scan.channel.isNone =>
              /\ pc[p] \in {"notify", "done"}
              /\ fetch[p] = NoFetch
              /\ \A k \in Notifications : chat[k].by # p

\* an invocation that starts gets the channel configured at that moment,
\* or returns at once without a fetch or a message when there is none, and
\* keeps what it got whatever setchannel does later
C24_Captured ==
    \A p \in Notifiers :
        IF pc[p] = "notify" /\ pc'[p] # "notify"
        THEN IF Configured
             THEN loc'[p].scan.channel = Some(config.channel_id)
             ELSE /\ loc'[p].scan.channel = None
                  /\ pc'[p] = "done"
                  /\ fetch' = fetch
                  /\ chat' = chat
        ELSE loc'[p].scan.channel = loc[p].scan.channel

\* C24: a notification is delivered to the channel that was configured
\* when its _notify_now started; a setchannel that runs while the
\* invocation is suspended in a fetch changes the target only of
\* invocations that start afterwards; a _notify_now that starts with no
\* channel configured, or an unknown one, issues no fetch and sends
\* nothing.
C24_ChannelOfTheStart == []C24_Delivered /\ [][C24_Captured]_vars

\* C24 witness: n1 started with channel 1 configured, setchannel chose
\* channel 3 while n1 was in its fetches, n2 started after that; n1 has
\* notified channel 1 and n2 channel 3.
C24_Witness ==
    /\ upstream = "chan"
    /\ config = [channel_id |-> 3]
    /\ \E k \in Notifications : chat[k].by = "n1" /\ chat[k].to = 1
    /\ \E k \in Notifications : chat[k].by = "n2" /\ chat[k].to = 3

====
